---- MODULE Spec2Model ----
(***************************************************************************)
(* Model of the scheduling and lifecycle controller HealthCheckAutomation  *)
(* (health_check_core.py) together with the callers in health_check_gui.py *)
(* that drive it.  Times are integer milliseconds of naive local time,     *)
(* counted from 00:00:00.000 of day 0.                                     *)
(***************************************************************************)
EXTENDS Integers, Sequences, FiniteSets, TLC

\* ------------------------------------------------------------------ bounds
\* The clock runs through days 0..MaxDay.  The environment produces at most
\* MaxOps events: calls that create threads (start, stop, manual check-in),
\* changes of the file, advances of the clock to the next instant, and
\* exceptions raised inside an iteration of the loop.
MaxDay == 1
MaxOps == 3

\* wait_and_click_with_retry is called with max_retries in 0..MaxRetries.
MaxRetries == 4

\* MaxCallers threads call HealthCheckAutomation() or get_instance(), each at
\* most MaxCalls times.
MaxCallers == 2
MaxCalls == 2

\* On the fine-grained clock the scheduler is started at most 5 * MaxLead
\* seconds before the run instant and is watched until MaxSeconds after it.
MaxLead == 8
MaxSeconds == 60

\* ------------------------------------------------------- program constants
SecondMs == 1000
MinuteMs == 60000
HourMs == 3600000
DayMs == 86400000
config_check_interval == 30
JoinTimeout == 5
Backoff == 5
SleepCap == 30
DefaultMaxRetries == 2
None == -1

\* ----------------------------------------------------------- dictionaries
\* A Python attribute that does not exist (never set, or removed by delattr).
NoAttr == [noattr |-> TRUE]

HasAttr(x) == "noattr" \notin DOMAIN x

\* The empty dict {} that config.get("schedule", {}) yields.
EmptyDict == [k \in {} |-> TRUE]

Sched(e, h, m) == [enabled |-> e, hour |-> h, minute |-> m]

\* dict truthiness and dict.get("enabled", False)
Truthy(d) == DOMAIN d # {}

GetEnabled(d) == IF "enabled" \in DOMAIN d THEN d["enabled"] ELSE FALSE

\* --------------------------------------------------------- calendar helpers
At(day, h, m, s) == day * DayMs + h * HourMs + m * MinuteMs + s * SecondMs

\* datetime.replace(hour=h, minute=m, second=0, microsecond=0)
Replace(t, h, m) == (t \div DayMs) * DayMs + h * HourMs + m * MinuteMs

Max(a, b) == IF a >= b THEN a ELSE b

Min(a, b) == IF a <= b THEN a ELSE b

\* ------------------------------------------------------ ScheduleCalculator
\* The mutant compares with > where the code compares with >=.
calculate_next_run_time_gt(sc, t) ==
    IF ~Truthy(sc) \/ ~GetEnabled(sc) THEN None
    ELSE LET next_run == Replace(t, sc["hour"], sc["minute"])
         IN  IF t > next_run THEN next_run + DayMs ELSE next_run

\* _calculate_next_run_time for an existing schedule_config attribute sc
\* carrying hour and minute whenever it is enabled.
calculate_next_run_time(sc, t) ==
    IF ~Truthy(sc) \/ ~GetEnabled(sc) THEN None
    ELSE LET next_run == Replace(t, sc["hour"], sc["minute"])
         IN  IF t >= next_run THEN next_run + DayMs ELSE next_run

\* _get_next_run_delay: max(0, next_run_time - now), or -1 without a task
get_next_run_delay(nrt, t) == IF nrt # None THEN Max(0, nrt - t) ELSE -1

\* combined_loop's choice of the sleep length, in milliseconds
SleepTime(delay) ==
    IF delay > 0 /\ delay <= 5 * SecondMs THEN 500
    ELSE IF delay > 0
         THEN Min(delay \div 2,
                  Min((config_check_interval * SecondMs) \div 2, 30 * SecondMs))
         ELSE Min(config_check_interval * SecondMs, 30 * SecondMs)

\* ------------------------------------------------------------------- state
VARIABLES
    now,                  \* wall clock
    file,                 \* health_config.json: exists, mtime, content
    gui_config,           \* HealthCheckGUI.config
    config,               \* self.config
    schedule_config,      \* self.schedule_config
    has_user_info,        \* self.user_info and self.browser_config exist
    config_last_modified, \* self.config_last_modified
    running,              \* self.running
    timer,                \* self.timer: index into timers, 0 for None
    next_run_time,        \* self.next_run_time
    timers,               \* every threading.Timer created so far
    loops,                \* every thread created with target combined_loop
    combined_thread,      \* self.combined_thread: index into loops, 0 for None
    inFlight,             \* the executions of fill_health_form in progress
    stopper,              \* the caller inside stop_combined_thread
    manual,               \* the thread inside HealthCheckGUI.real_checkin
    ops,                  \* environment events so far (see MaxOps)
    lastOp,               \* the step taken last
    report,               \* what the step taken last reported, if it ended an
                          \* attempt or failed a reload
    retry,                \* a call of wait_and_click_with_retry
    attempted,            \* an execution of fill_health_form has returned
    instance,             \* HealthCheckAutomation._instance: index into objects,
                          \* 0 for None
    objects,              \* every HealthCheckAutomation object created so far
    callers,              \* the threads constructing or fetching the controller
    gui                   \* HealthCheckGUI: its scheduler attributes, its local
                          \* timers, its place in save_config

vars == <<now, file, gui_config, config, schedule_config, has_user_info,
          config_last_modified, running, timer, next_run_time, timers, loops,
          combined_thread, inFlight, stopper, manual, ops, lastOp, report,
          retry, attempted, instance, objects, callers, gui>>

\* The class attribute, the objects and the constructing threads.
singletonVars == <<instance, objects, callers>>

\* ------------------------------------------------------------ input domains
ClockTimesOfDay == {At(0, 9, 0, 0), At(0, 10, 30, 0)}

ClockInstants == {d * DayMs + t : d \in 0..MaxDay, t \in ClockTimesOfDay}

\* The file is edited by hand as well as by the GUI: hour 24 is a value that
\* datetime.replace rejects.
FileSchedules ==
    {Sched(e, 10, 30) : e \in BOOLEAN} \cup {Sched(TRUE, 9, 0), Sched(TRUE, 24, 0)}

InitialContent == [schedule |-> Sched(TRUE, 10, 30)]

\* A file that json.load rejects.
Malformed == [malformed |-> TRUE]

\* A file opened with mode 'w' (gui line 624) and not written yet: it is empty,
\* and json.load rejects it.
Truncated == [malformed |-> TRUE, truncated |-> TRUE]

Wellformed(c) == "malformed" \notin DOMAIN c

FileContents == {[schedule |-> s] : s \in FileSchedules} \cup {Malformed}

get_schedule(c) == IF "schedule" \in DOMAIN c THEN c["schedule"] ELSE EmptyDict

\* -------------------------------------------------------------------- Init
\* The step ended no attempt and failed no reload.
NoReport == [kind |-> "none", result |-> "none", leaked |-> FALSE, sink |-> 0]

\* No call of wait_and_click_with_retry is in progress.
NoRetry == [pc |-> "idle", max_retries |-> 0, results |-> << >>, attempts |-> 0,
            ret |-> FALSE]

NewLoop == [pc |-> "begin", last_config_check |-> 0, wake_at |-> 0]

\* A thread that has ended; its locals are gone.
ExitedLoop == [pc |-> "exited", last_config_check |-> 0, wake_at |-> 0]

\* A Timer that was cancelled before firing or whose callback has returned.
DoneTimer == [target |-> 0, st |-> "done"]

\* The threads that construct or fetch the controller.
Callers == 1..MaxCallers

\* A thread outside the constructor: calls counts its calls so far, ret is the
\* object its last call returned (0 before the first return).
IdleCaller == [pc |-> "idle", via |-> "none", self |-> 0, calls |-> 0, ret |-> 0]

\* Lines 55-68: a new object before __init__ has run on it has no attribute.
NewObject == [initialized |-> FALSE, running |-> FALSE]

\* HealthCheckGUI after __init__ (lines 70-72): no core instance, the core
\* scheduler not known to be available, no local timer.  local_timers holds
\* every threading.Timer the GUI created, local_timer is self._local_timer (an
\* index, 0 for None), and save tells whether save_config is between its open
\* and its dump.
NewGui ==
    [core_instance |-> FALSE, core_scheduler_available |-> FALSE,
     local_scheduler_running |-> FALSE, local_timer |-> 0,
     local_timers |-> << >>, save |-> "idle"]

\* HealthCheckGUI once it has fetched the core instance (lines 686-687,
\* 895-896).
ReadyGui == [NewGui EXCEPT !.core_instance = TRUE, !.core_scheduler_available = TRUE]

Init ==
    /\ now = At(0, 9, 0, 0)
    /\ file = [exists |-> TRUE, mtime |-> 1, content |-> InitialContent]
    /\ gui_config = [schedule |-> [file.content["schedule"] EXCEPT !["enabled"] = TRUE]]
    /\ config = NoAttr
    /\ schedule_config = NoAttr
    /\ has_user_info = FALSE
    /\ config_last_modified = 0
    /\ running = FALSE
    /\ timer = 0
    /\ next_run_time = None
    /\ timers = << >>
    /\ loops = << >>
    /\ combined_thread = 0
    /\ inFlight = {}
    /\ stopper = [pc |-> "idle", deadline |-> 0]
    /\ manual = "idle"
    /\ ops = 0
    /\ lastOp = "init"
    /\ report = NoReport
    /\ retry = NoRetry
    /\ attempted = FALSE
    /\ instance = 0
    /\ objects = << >>
    /\ callers = [c \in Callers |-> IdleCaller]
    /\ gui = ReadyGui

\* ------------------------------------------------------ _schedule_next_run
\* Timer.cancel() stops a timer that has not fired yet and leaves a callback
\* that is already executing alone.
CancelTimer(ts, i) ==
    IF i # 0 /\ ts[i].st = "armed" THEN [ts EXCEPT ![i] = DoneTimer] ELSE ts

\* Line 530: datetime.replace raises ValueError outside these ranges.
valid_time(sc) == sc["hour"] \in 0..23 /\ sc["minute"] \in 0..59

\* Lines 542-549: after the cancel, what the computation of next_run_time does:
\* "raise" (no schedule_config attribute, or an enabled record without hour
\* or minute, or with a time of day that does not exist), "none" (nothing to
\* arm) or "arm".
schedule_outcome(sc, t) ==
    IF ~HasAttr(sc) THEN "raise"
    ELSE IF Truthy(sc) /\ GetEnabled(sc)
              /\ (~({"hour", "minute"} \subseteq DOMAIN sc) \/ ~valid_time(sc))
         THEN "raise"
         ELSE IF calculate_next_run_time(sc, t) = None THEN "none" ELSE "arm"

schedule_next_run_time(sc, nrt, t) ==
    IF schedule_outcome(sc, t) = "raise" THEN nrt ELSE calculate_next_run_time(sc, t)

\* Lines 551-565: the Timer created for the delay read from next_run_time.
NewTimer(nrt, t) == [target |-> t + get_next_run_delay(nrt, t), st |-> "armed"]

ArmedTimers == {i \in DOMAIN timers : timers[i].st = "armed"}

Alive(t) == t # 0 /\ loops[t].pc # "exited"

LiveLoops == {t \in DOMAIN loops : Alive(t)}

\* Lines 493-507 with "while True": the flag is not tested.
EnterIteration_forever(l, nrt) ==
    [l EXCEPT !.pc = "sleep",
              !.wake_at = now + SleepTime(get_next_run_delay(nrt, now))]

\* Lines 493-507: the loop tests the flag, picks the sleep and goes to sleep,
\* or leaves.  nrt is next_run_time as the iteration left it.
EnterIteration(l, nrt) ==
    IF running
    THEN [l EXCEPT !.pc = "sleep",
                   !.wake_at = now + SleepTime(get_next_run_delay(nrt, now))]
    ELSE ExitedLoop

\* ----------------------------------------------------------- the environment
\* A step that needs no waiting is due: a thread between two statements, a
\* sleep, Timer delay or join whose time has come.  The clock moves on to the
\* next instant, far away, only when no such step is due; an execution of
\* fill_health_form may last across instants.
StepDue ==
    \/ \E t \in DOMAIN loops :
          \/ loops[t].pc \in {"begin", "begin_arm", "poll_arm"}
          \/ loops[t].pc \in {"sleep", "backoff"} /\ now >= loops[t].wake_at
    \/ \E i \in DOMAIN timers :
          \/ timers[i].st = "rearm"
          \/ timers[i].st = "armed" /\ now >= timers[i].target
    \/ manual \in {"scheduled", "loaded", "run"}
    \/ gui.save = "open"
    \/ stopper.pc = "join" /\ (~Alive(combined_thread) \/ now >= stopper.deadline)

\* Someone waits for the clock: a sleeping loop, an armed Timer, a join.
Waiting ==
    \/ \E t \in DOMAIN loops : loops[t].pc \in {"sleep", "backoff"}
    \/ ArmedTimers # {}
    \/ stopper.pc = "join"

Tick ==
    /\ ~StepDue
    /\ Waiting
    /\ ops < MaxOps
    /\ ops' = ops + 1
    /\ \E t \in ClockInstants :
          /\ t > now
          /\ \A u \in ClockInstants : u > now => t <= u
          /\ now' = t
    /\ lastOp' = "step"
    /\ report' = NoReport
    /\ UNCHANGED <<file, gui_config, config, schedule_config, has_user_info,
                   config_last_modified, running, timer, next_run_time, timers,
                   loops, combined_thread, inFlight, stopper, manual, retry,
                   attempted>>
    /\ UNCHANGED <<singletonVars, gui>>

\* The file is rewritten with other content; its modification time advances.
FileWrite ==
    /\ ops < MaxOps
    /\ \E c \in FileContents :
          /\ c # file.content \/ ~file.exists
          /\ file' = [exists |-> TRUE, mtime |-> file.mtime + 1, content |-> c]
    /\ ops' = ops + 1
    /\ lastOp' = "step"
    /\ report' = NoReport
    /\ UNCHANGED <<now, gui_config, config, schedule_config, has_user_info,
                   config_last_modified, running, timer, next_run_time, timers,
                   loops, combined_thread, inFlight, stopper, manual, retry,
                   attempted>>
    /\ UNCHANGED <<singletonVars, gui>>

FileDelete ==
    /\ ops < MaxOps
    /\ file.exists
    /\ file' = [file EXCEPT !.exists = FALSE]
    /\ ops' = ops + 1
    /\ lastOp' = "step"
    /\ report' = NoReport
    /\ UNCHANGED <<now, gui_config, config, schedule_config, has_user_info,
                   config_last_modified, running, timer, next_run_time, timers,
                   loops, combined_thread, inFlight, stopper, manual, retry,
                   attempted>>
    /\ UNCHANGED <<singletonVars, gui>>

\* ------------------------------------------------- start_combined_thread
\* Line 589: the early return of a disabled schedule.
start_returns_early_never(sc) == FALSE

start_returns_early(sc) == ~sc["enabled"]

\* Lines 589-594 raise when the attribute or a key that is read is missing.
start_raises(sc) ==
    \/ ~HasAttr(sc)
    \/ "enabled" \notin DOMAIN sc
    \/ sc["enabled"] /\ ~({"hour", "minute"} \subseteq DOMAIN sc)

start_label(sc) ==
    IF start_raises(sc) THEN "start_raised"
    ELSE IF sc["enabled"] THEN "start" ELSE "start_disabled"

\* start_combined_thread(), called by the host directly.
Start ==
    /\ stopper.pc = "idle"
    /\ ops < MaxOps
    /\ ops' = ops + 1
    /\ lastOp' = start_label(schedule_config)
    /\ IF start_raises(schedule_config) \/ start_returns_early(schedule_config)
       THEN UNCHANGED <<running, loops, combined_thread>>
       ELSE /\ running' = TRUE
            /\ loops' = Append(loops, NewLoop)
            /\ combined_thread' = Len(loops) + 1
    /\ report' = NoReport
    /\ UNCHANGED <<now, file, gui_config, config, schedule_config, has_user_info,
                   config_last_modified, timer, next_run_time, timers, inFlight,
                   stopper, manual, retry, attempted>>
    /\ UNCHANGED <<singletonVars, gui>>

\* Lines 99-106: load_or_create_config gets through when the file exists and
\* json.load accepts it.
readable == file.exists /\ Wellformed(file.content)

\* Lines 100-103 replaced by a silent default: a missing file yields an empty
\* config instead of FileNotFoundError.
load_or_create_config_default(cfg, recorded) ==
    IF ~file.exists
    THEN [raised |-> FALSE, config |-> EmptyDict, config_last_modified |-> recorded]
    ELSE IF ~Wellformed(file.content)
         THEN [raised |-> TRUE, config |-> cfg, config_last_modified |-> recorded]
         ELSE [raised |-> FALSE, config |-> file.content,
               config_last_modified |-> file.mtime]

\* Lines 97-109: FileNotFoundError for a missing file (line 103); json.load
\* raises before line 106 assigns; else the content is cached and the file's
\* mtime recorded.
load_or_create_config(cfg, recorded) ==
    IF ~readable
    THEN [raised |-> TRUE, config |-> cfg, config_last_modified |-> recorded]
    ELSE [raised |-> FALSE, config |-> file.content,
          config_last_modified |-> file.mtime]

\* load_or_create_config(), called by the host directly.
LoadConfig ==
    /\ stopper.pc = "idle"
    /\ LET r == load_or_create_config(config, config_last_modified)
       IN  /\ config' = r.config
           /\ config_last_modified' = r.config_last_modified
           /\ lastOp' = IF r.raised THEN "load_raised" ELSE "load"
    /\ report' = NoReport
    /\ UNCHANGED <<now, file, gui_config, schedule_config, has_user_info, running,
                   timer, next_run_time, timers, loops, combined_thread, inFlight,
                   stopper, manual, ops, retry, attempted>>
    /\ UNCHANGED <<singletonVars, gui>>

\* Lines 113-119 followed by a refresh of the watch timestamp.
save_timestamp_refreshed(mtime, recorded) == mtime

\* Lines 113-119: save_config writes the file and assigns nothing.
save_timestamp(mtime, recorded) == recorded

\* save_config(), called by the host directly: json.dump of self.config into
\* the file; AttributeError when no config is cached.
SaveConfig ==
    /\ stopper.pc = "idle"
    /\ ops < MaxOps
    /\ ops' = ops + 1
    /\ IF HasAttr(config)
       THEN /\ file' = [exists |-> TRUE, mtime |-> file.mtime + 1, content |-> config]
            /\ config_last_modified' =
                  save_timestamp(file'.mtime, config_last_modified)
            /\ lastOp' = "save_config"
       ELSE /\ lastOp' = "step"
            /\ UNCHANGED <<file, config_last_modified>>
    /\ report' = NoReport
    /\ UNCHANGED <<now, gui_config, config, schedule_config, has_user_info, running,
                   timer, next_run_time, timers, loops, combined_thread, inFlight,
                   stopper, manual, retry, attempted>>
    /\ UNCHANGED <<singletonVars, gui>>

\* setup_automation(), called by the host directly: loads the file when no
\* config is cached, then derives user_info, schedule_config, browser_config.
SetupAutomation ==
    /\ stopper.pc = "idle"
    /\ IF ~HasAttr(config) /\ ~readable
       THEN UNCHANGED <<config, config_last_modified, has_user_info, schedule_config>>
       ELSE /\ config' = IF HasAttr(config) THEN config ELSE file.content
            /\ config_last_modified' =
                  IF HasAttr(config) THEN config_last_modified ELSE file.mtime
            /\ has_user_info' = TRUE
            /\ schedule_config' = get_schedule(config')
    /\ lastOp' = "step"
    /\ report' = NoReport
    /\ UNCHANGED <<now, file, gui_config, running, timer, next_run_time, timers,
                   loops, combined_thread, inFlight, stopper, manual, ops, retry,
                   attempted>>
    /\ UNCHANGED <<singletonVars, gui>>

\* ------------------------------------------ _unload_non_essential_modules
\* Lines 473-476 delete user_info and browser_config while the executions S
\* of fill_health_form are in progress.  One that was started with them and
\* has not yet filled the form reads user_info at lines 361-379: before the
\* deletion, after the attributes are set again, or while they are gone.
Unloaded(S) ==
    IF ~has_user_info THEN {S}
    ELSE {{IF x \in L THEN [x EXCEPT !.intact = FALSE] ELSE x : x \in S} :
             L \in SUBSET {x \in S : x.driver /\ x.intact}}

\* -------------------------------------------------- stop_combined_thread
\* Lines 609-620: clear the flag, cancel the timer, then join for 5 seconds.
StopBegin ==
    /\ stopper.pc = "idle"
    /\ gui.save = "idle"
    /\ ops < MaxOps
    /\ ops' = ops + 1
    /\ IF running
       THEN /\ running' = FALSE
            /\ timers' = IF timer # 0 THEN CancelTimer(timers, timer) ELSE timers
            /\ timer' = 0
            /\ next_run_time' = IF timer # 0 THEN None ELSE next_run_time
            /\ stopper' = [pc |-> "join", deadline |-> now + JoinTimeout * SecondMs]
            /\ lastOp' = "step"
       ELSE /\ lastOp' = "stop_noop"
            /\ UNCHANGED <<running, timers, timer, next_run_time, stopper>>
    /\ report' = NoReport
    /\ UNCHANGED <<now, file, gui_config, config, schedule_config, has_user_info,
                   config_last_modified, loops, combined_thread, inFlight, manual, retry,
                   attempted>>
    /\ UNCHANGED <<singletonVars, gui>>

\* Lines 631-635 clearing the watch timestamp together with the config.
stop_timestamp_reset(recorded) == 0

\* Lines 631-635: config and schedule_config are deleted, config_last_modified
\* is not assigned.
stop_timestamp(recorded) == recorded

\* Lines 618-637: the join returns (thread gone, or timeout), state is cleared.
StopEnd ==
    /\ stopper.pc = "join"
    /\ ~Alive(combined_thread) \/ now >= stopper.deadline
    /\ stopper' = [pc |-> "idle", deadline |-> 0]
    /\ has_user_info' = FALSE
    /\ config' = NoAttr
    /\ schedule_config' = NoAttr
    /\ lastOp' = "stop_return"
    /\ report' = NoReport
    /\ inFlight' \in Unloaded(inFlight)
    /\ config_last_modified' = stop_timestamp(config_last_modified)
    /\ UNCHANGED <<now, file, gui_config, running, timer, next_run_time, timers,
                   loops, combined_thread, manual, ops, retry, attempted>>
    /\ UNCHANGED <<singletonVars, gui>>

\* ------------------------------------------------------------ combined_loop
\* Line 489: the first _schedule_next_run, outside the loop's try; when it
\* raises the thread ends.  When nothing is armed, lines 491-507 follow.
LoopBegin(t) ==
    /\ loops[t].pc = "begin"
    /\ LET out == schedule_outcome(schedule_config, now)
           nrt == schedule_next_run_time(schedule_config, next_run_time, now)
       IN  /\ timers' = CancelTimer(timers, timer)
           /\ timer' = 0
           /\ next_run_time' = nrt
           /\ loops' = [loops EXCEPT ![t] =
                  IF out = "raise" THEN ExitedLoop
                  ELSE IF out = "none"
                       THEN EnterIteration([@ EXCEPT !.last_config_check = now], nrt)
                       ELSE [@ EXCEPT !.pc = "begin_arm"]]
           /\ lastOp' = "step"
    /\ report' = NoReport
    /\ UNCHANGED <<now, file, gui_config, config, schedule_config, has_user_info,
                   config_last_modified, running, combined_thread, inFlight,
                   stopper, manual, ops, retry, attempted>>
    /\ UNCHANGED <<singletonVars, gui>>

\* Lines 551-565 of that first call, then lines 491-507.
LoopBeginArm(t) ==
    /\ loops[t].pc = "begin_arm"
    /\ IF next_run_time = None
       THEN /\ loops' = [loops EXCEPT ![t] = ExitedLoop]
            /\ UNCHANGED <<timers, timer>>
       ELSE /\ timers' = Append(timers, NewTimer(next_run_time, now))
            /\ timer' = Len(timers) + 1
            /\ loops' = [loops EXCEPT ![t] =
                   EnterIteration([@ EXCEPT !.last_config_check = now], next_run_time)]
    /\ lastOp' = "step"
    /\ report' = NoReport
    /\ UNCHANGED <<now, file, gui_config, config, schedule_config, has_user_info,
                   config_last_modified, running, next_run_time, combined_thread,
                   inFlight, stopper, manual, ops, retry, attempted>>
    /\ UNCHANGED <<singletonVars, gui>>

\* ------------------------------------------------------ check_config_changes
\* Line 652 without the return of lines 644-646: an absent file counts as
\* changed when its last known mtime is newer than the recorded one.
config_changed_absent == file.mtime > config_last_modified

\* Line 652 with >= in place of >.
config_changed_ge == file.exists /\ file.mtime >= config_last_modified

\* Line 652: the file exists and is newer than the recorded timestamp.
config_changed == file.exists /\ file.mtime > config_last_modified

\* The timestamp kept as it was when the load fails.
reload_timestamp_after_load(mtime, recorded) == recorded

\* Line 657: the timestamp is stored before load_or_create_config is called.
reload_timestamp(mtime, recorded) == mtime

\* logger_config.py: gui_log_handler is added to a logger only by setup_logger
\* (line 84) and basicConfig (line 170) of that module, and nothing calls
\* either; gui_launcher.py line 27 configures the standard logging module.
gui_handler_attached == FALSE

\* GUILogHandler.emit (lines 43-52): records logged by the core reach
\* add_status_message only through an attached handler.
emit(n) == IF gui_handler_attached THEN n ELSE 0

\* Lines 671-672 (and 676): a failed reload is logged once with logger.error.
ReloadFailure ==
    [kind |-> "reload", result |-> "failure", leaked |-> FALSE, sink |-> emit(1)]

\* Lines 664-665: setup_automation runs when either attribute exists.
reload_schedule_config ==
    IF HasAttr(schedule_config) \/ has_user_info
    THEN get_schedule(file.content) ELSE schedule_config

\* Line 668: only a running scheduler with an enabled schedule is re-armed.
reload_reschedules(sc) ==
    running /\ HasAttr(sc) /\ "enabled" \in DOMAIN sc /\ sc["enabled"]

\* The sleep ends; lines 509-513: the poll, when it is due, including lines
\* 542-549 of its _schedule_next_run; then the next iteration's lines 493-507.
LoopWake(t) ==
    /\ loops[t].pc = "sleep"
    /\ now >= loops[t].wake_at
    /\ LET due == now - loops[t].last_config_check >= config_check_interval * SecondMs
           sc1 == reload_schedule_config
           out == schedule_outcome(sc1, now)
           nrt == schedule_next_run_time(sc1, next_run_time, now)
           l1 == [loops[t] EXCEPT !.last_config_check = IF due THEN now ELSE @]
       IN  IF due /\ config_changed
           THEN IF ~Wellformed(file.content)
                THEN /\ config_last_modified' =
                           reload_timestamp(file.mtime, config_last_modified)
                     /\ loops' = [loops EXCEPT ![t] = EnterIteration(l1, next_run_time)]
                     /\ report' = ReloadFailure
                     /\ lastOp' = "poll_failed"
                     /\ UNCHANGED <<config, schedule_config, has_user_info, timers,
                                    timer, next_run_time>>
                ELSE /\ config' = file.content
                     /\ config_last_modified' = file.mtime
                     /\ schedule_config' = sc1
                     /\ has_user_info' = (HasAttr(schedule_config) \/ has_user_info)
                     /\ IF reload_reschedules(sc1)
                        THEN /\ timers' = CancelTimer(timers, timer)
                             /\ timer' = 0
                             /\ next_run_time' = nrt
                             /\ loops' = [loops EXCEPT ![t] =
                                    IF out = "arm"
                                    THEN [l1 EXCEPT !.pc = "poll_arm", !.wake_at = 0]
                                    ELSE EnterIteration(l1, nrt)]
                             /\ report' = IF out = "raise" THEN ReloadFailure
                                                           ELSE NoReport
                             /\ lastOp' = IF out = "raise" THEN "poll_failed"
                                                           ELSE "poll_reload"
                        ELSE /\ loops' = [loops EXCEPT ![t] =
                                    EnterIteration(l1, next_run_time)]
                             /\ lastOp' = "poll_reload"
                             /\ report' = NoReport
                             /\ UNCHANGED <<timers, timer, next_run_time>>
           ELSE /\ loops' = [loops EXCEPT ![t] = EnterIteration(l1, next_run_time)]
                /\ lastOp' = IF due THEN "poll_nochange" ELSE "step"
                /\ report' = NoReport
                /\ UNCHANGED <<config, config_last_modified, schedule_config,
                               has_user_info, timers, timer, next_run_time>>
    /\ UNCHANGED <<now, file, gui_config, running, combined_thread, inFlight,
                   stopper, manual, ops, retry, attempted>>
    /\ UNCHANGED <<singletonVars, gui>>

\* Lines 551-565 of the poll's _schedule_next_run; a failure is swallowed by
\* check_config_changes (line 676).  Then the next iteration's lines 493-507.
LoopPollArm(t) ==
    /\ loops[t].pc = "poll_arm"
    /\ IF next_run_time = None
       THEN /\ report' = ReloadFailure
            /\ lastOp' = "poll_arm_failed"
            /\ UNCHANGED <<timers, timer>>
       ELSE /\ timers' = Append(timers, NewTimer(next_run_time, now))
            /\ timer' = Len(timers) + 1
            /\ lastOp' = "poll_arm"
            /\ report' = NoReport
    /\ loops' = [loops EXCEPT ![t] = EnterIteration(@, next_run_time)]
    /\ UNCHANGED <<now, file, gui_config, config, schedule_config, has_user_info,
                   config_last_modified, running, next_run_time, combined_thread,
                   inFlight, stopper, manual, ops, retry, attempted>>
    /\ UNCHANGED <<singletonVars, gui>>

\* ------------------------------------- the handler of combined_loop's try
\* Lines 514-519 without the try: the exception ends the thread.
iteration_handler_dies(l, t0) == ExitedLoop

\* Lines 514-519: the exception is logged and the thread sleeps 5 seconds.
iteration_handler(l, t0) ==
    [l EXCEPT !.pc = "backoff", !.wake_at = t0 + Backoff * SecondMs]

\* A statement of lines 495-513 raises (the sleep, the clock, the poll): the
\* handler takes over; last_config_check keeps its value.
LoopRaise(t) ==
    /\ loops[t].pc = "sleep"
    /\ ops < MaxOps
    /\ ops' = ops + 1
    /\ loops' = [loops EXCEPT ![t] = iteration_handler(@, now)]
    /\ lastOp' = "loop_caught"
    /\ report' = NoReport
    /\ UNCHANGED <<now, file, gui_config, config, schedule_config, has_user_info,
                   config_last_modified, running, timer, next_run_time, timers,
                   combined_thread, inFlight, stopper, manual, retry,
                   attempted>>
    /\ UNCHANGED <<singletonVars, gui>>

\* The 5 seconds are over: the next iteration's lines 493-507.
LoopBackoffEnd(t) ==
    /\ loops[t].pc = "backoff"
    /\ now >= loops[t].wake_at
    /\ loops' = [loops EXCEPT ![t] = EnterIteration(@, next_run_time)]
    /\ lastOp' = "loop_resumed"
    /\ report' = NoReport
    /\ UNCHANGED <<now, file, gui_config, config, schedule_config, has_user_info,
                   config_last_modified, running, timer, next_run_time, timers,
                   combined_thread, inFlight, stopper, manual, ops, retry,
                   attempted>>
    /\ UNCHANGED <<singletonVars, gui>>

\* ---------------------------------------------------------- _timer_callback
\* An execution of fill_health_form: who called it, for which run instant (0
\* for a manual run), whether user_info and browser_config existed when it
\* set up the driver (line 140), and whether user_info is intact for its
\* reads at lines 361-379.
Invocation(kind, id, instant) ==
    [kind |-> kind, id |-> id, instant |-> instant, driver |-> has_user_info,
     intact |-> TRUE]

\* What one execution of fill_health_form does, as the browser decides:
\* result: "success" (returns True), "failure" (returns False) or "raised";
\* errors: the records it logs with logger.error; leaked: a browser session
\* that was created and is never quit.
Outcome(r, e, l) == [result |-> r, errors |-> e, leaked |-> l]

\* Line 139 raises AttributeError without browser_config: lines 395-400 with
\* no driver.
OutcomesWithoutInfo == {Outcome("failure", 1, FALSE)}

\* success: the form is submitted (line 393) and the browser quit (line 432).
\* failure, nothing left: webdriver.Edge raised (lines 201-203), the submit
\*   button was not found (line 319) or a step raised (lines 395-400).
\* failure, leaked: execute_cdp_cmd raised after webdriver.Edge returned;
\*   setup_driver returns None (lines 201-203) and drops the driver.
\* success, leaked: delete_all_cookies raised in _cleanup_resources; line 438
\*   logs it and driver.quit (line 432) is never reached.
\* raised: save_screenshot raised inside the handler (line 399).
OutcomesWithInfo ==
    {Outcome("success", 0, FALSE), Outcome("failure", 1, FALSE),
     Outcome("failure", 1, TRUE), Outcome("success", 1, TRUE),
     Outcome("raised", 1, FALSE)}

FillOutcomes(info) == IF info THEN OutcomesWithInfo ELSE OutcomesWithoutInfo

\* Lines 361-379 raise AttributeError when user_info was deleted after the
\* driver was set up: the handler of lines 395-400 logs it and returns False,
\* or save_screenshot raises inside it.
OutcomesInfoLost == {Outcome("failure", 1, FALSE), Outcome("raised", 1, FALSE)}

InvocationOutcomes(x) ==
    IF x.driver /\ ~x.intact THEN OutcomesInfoLost ELSE FillOutcomes(x.driver)

\* Lines 572-573: _timer_callback logs what fill_health_form raised; nothing
\* else tells the GUI about a scheduled attempt.
TimerReport(o) ==
    [kind |-> "timer", result |-> o.result, leaked |-> o.leaked,
     sink |-> emit(o.errors + (IF o.result = "raised" THEN 1 ELSE 0))]

\* real_checkin lines 723-733 turn a False or an exception into (False,
\* message), logging the exception; manual_checkin lines 662-665 show a failed
\* result with one add_status_message.
ManualReport(o) ==
    [kind |-> "manual", result |-> o.result, leaked |-> o.leaked,
     sink |-> emit(o.errors + (IF o.result = "raised" THEN 1 ELSE 0))
                + (IF o.result = "success" THEN 0 ELSE 1)]

\* The Timer's delay has elapsed: the callback enters fill_health_form.
TimerFire(i) ==
    /\ timers[i].st = "armed"
    /\ now >= timers[i].target
    /\ timers' = [timers EXCEPT ![i] = [target |-> 0, st |-> "firing"]]
    /\ inFlight' = inFlight \cup {Invocation("timer", i, timers[i].target)}
    /\ lastOp' = "step"
    /\ report' = NoReport
    /\ UNCHANGED <<now, file, gui_config, config, schedule_config, has_user_info,
                   config_last_modified, running, timer, next_run_time, loops,
                   combined_thread, stopper, manual, ops, retry, attempted>>
    /\ UNCHANGED <<singletonVars, gui>>

\* fill_health_form returns through its finally (_cleanup_resources, and
\* _unload_non_essential_modules, which deletes user_info and browser_config);
\* then lines 572-577 with lines 542-549 of _schedule_next_run.
TimerFillEnd(i) ==
    /\ timers[i].st = "firing"
    /\ \E x \in {y \in inFlight : y.kind = "timer" /\ y.id = i} :
          \E o \in InvocationOutcomes(x) :
             /\ inFlight' \in Unloaded(inFlight \ {x})
             /\ report' = TimerReport(o)
    /\ has_user_info' = FALSE
    /\ attempted' = TRUE
    /\ IF running
       THEN LET out == schedule_outcome(schedule_config, now)
                ts == CancelTimer(timers, timer)
            IN  /\ timers' = [ts EXCEPT ![i] = IF out = "arm" THEN [@ EXCEPT !.st = "rearm"]
                                                      ELSE DoneTimer]
                /\ timer' = 0
                /\ next_run_time' =
                      schedule_next_run_time(schedule_config, next_run_time, now)
       ELSE /\ timers' = [timers EXCEPT ![i] = DoneTimer]
            /\ UNCHANGED <<timer, next_run_time>>
    /\ lastOp' = "step"
    /\ UNCHANGED <<now, file, gui_config, config, schedule_config,
                   config_last_modified, running, loops, combined_thread,
                   stopper, manual, ops, retry>>
    /\ UNCHANGED <<singletonVars, gui>>

\* Lines 551-565 of the callback's _schedule_next_run.
TimerRearm(i) ==
    /\ timers[i].st = "rearm"
    /\ IF next_run_time = None
       THEN /\ timers' = [timers EXCEPT ![i] = DoneTimer]
            /\ UNCHANGED timer
       ELSE /\ timers' = Append([timers EXCEPT ![i] = DoneTimer],
                                NewTimer(next_run_time, now))
            /\ timer' = Len(timers) + 1
    /\ lastOp' = "step"
    /\ report' = NoReport
    /\ UNCHANGED <<now, file, gui_config, config, schedule_config, has_user_info,
                   config_last_modified, running, next_run_time, loops,
                   combined_thread, inFlight, stopper, manual, ops, retry,
                   attempted>>
    /\ UNCHANGED <<singletonVars, gui>>

\* ------------------------------------- HealthCheckGUI.schedule_auto_checkin
\* Timer.cancel() on self._local_timer, then self._local_timer = None (lines
\* 883-885, 903-905, 964-966): a timer whose callback has begun is not stopped.
CancelLocalTimer(g) ==
    [g EXCEPT !.local_timers =
                  IF g.local_timer # 0 /\ @[g.local_timer] = "armed"
                  THEN [@ EXCEPT ![g.local_timer] = "done"] ELSE @,
              !.local_timer = 0]

\* Lines 940-959: a new threading.Timer for the next target is started and
\* kept in self._local_timer.
schedule_local_timer(g) ==
    [g EXCEPT !.local_timers = Append(@, "armed"),
              !.local_timer = Len(g.local_timers) + 1]

\* The local timers that will fire.
ArmedLocalTimers(g) == {i \in DOMAIN g.local_timers : g.local_timers[i] = "armed"}

\* Lines 926-938: the flag is set, and a local timer is created or replaces
\* the one there is; the core scheduler is not looked at.
fallback_to_local_scheduler(g) ==
    LET g1 == [g EXCEPT !.local_scheduler_running = TRUE]
    IN  schedule_local_timer(IF g1.local_timer = 0 THEN g1 ELSE CancelLocalTimer(g1))

\* Lines 698-705 and 880-886: when the local scheduler's flag is set, its
\* timer is cancelled and the flag cleared.
stop_local_scheduler(g) ==
    IF g.local_scheduler_running
    THEN [CancelLocalTimer(g) EXCEPT !.local_scheduler_running = FALSE]
    ELSE g

\* Where schedule_auto_checkin is made to raise: nowhere, in
\* add_status_message at line 865, while importing the core or getting its
\* instance (lines 894-895), or after start_combined_thread has returned
\* (add_status_message at line 901).
ScheduleErrors == {"none", "status", "create", "started"}

\* schedule_auto_checkin lines 864-915, after _update_schedule_config: sc is
\* the schedule just saved, g the GUI's attributes, err the place of an error.
\* With an available core instance the schedule is assigned to the core's
\* schedule_config, the core scheduler is started only when it is not
\* running, and the local scheduler is stopped; without one the instance is
\* fetched and start_combined_thread is called whatever self.running is.  An
\* error ends in _fallback_to_local_scheduler.
schedule_auto_checkin(sc, g, err) ==
    IF err = "status"
    THEN /\ gui' = fallback_to_local_scheduler(g)
         /\ lastOp' = "save_fallback"
         /\ UNCHANGED <<schedule_config, running, loops, combined_thread>>
    ELSE IF g.core_instance /\ g.core_scheduler_available
    THEN /\ schedule_config' = sc
         /\ gui' = stop_local_scheduler(g)
         /\ IF running
            THEN /\ lastOp' = "save_settings"
                 /\ UNCHANGED <<running, loops, combined_thread>>
            ELSE /\ running' = TRUE
                 /\ loops' = Append(loops, NewLoop)
                 /\ combined_thread' = Len(loops) + 1
                 /\ lastOp' = "save_started"
    ELSE IF err = "create"
    THEN /\ gui' = fallback_to_local_scheduler(
                        [g EXCEPT !.core_scheduler_available = FALSE])
         /\ lastOp' = "save_fallback"
         /\ UNCHANGED <<schedule_config, running, loops, combined_thread>>
    ELSE /\ schedule_config' = sc
         /\ running' = TRUE
         /\ loops' = Append(loops, NewLoop)
         /\ combined_thread' = Len(loops) + 1
         /\ IF err = "started"
            THEN /\ gui' = fallback_to_local_scheduler(
                               [g EXCEPT !.core_instance = TRUE,
                                         !.core_scheduler_available = FALSE])
                 /\ lastOp' = "save_fallback"
            ELSE /\ gui' = [CancelLocalTimer(g) EXCEPT
                               !.core_instance = TRUE,
                               !.core_scheduler_available = TRUE,
                               !.local_scheduler_running = FALSE]
                 /\ lastOp' = "save_started"

\* ---------------------------------------------- HealthCheckGUI.real_checkin
\* Lines 686-708 with core lines 99-106: sync the schedule and start the core
\* scheduler when the core has a schedule_config, then load_or_create_config
\* up to its assignment of self.config (line 106).
ManualPrepare ==
    /\ \/ manual = "idle" /\ ops < MaxOps /\ ops' = ops + 1
       \/ manual = "scheduled" /\ ops' = ops
    /\ LET sync == HasAttr(schedule_config) /\ GetEnabled(get_schedule(gui_config))
           sc0 == IF sync THEN gui_config["schedule"] ELSE schedule_config
           starts == sync /\ ~start_raises(sc0) /\ ~start_returns_early(sc0)
           raises == (sync /\ start_raises(sc0)) \/ ~readable
           g == IF sync /\ ~start_raises(sc0) THEN stop_local_scheduler(gui) ELSE gui
       IN  /\ IF starts
              THEN /\ running' = TRUE
                   /\ loops' = Append(loops, NewLoop)
                   /\ combined_thread' = Len(loops) + 1
              ELSE UNCHANGED <<running, loops, combined_thread>>
           /\ schedule_config' = sc0
           /\ gui' = [g EXCEPT !.core_instance = TRUE,
                               !.core_scheduler_available = ~raises]
           /\ IF raises
              THEN /\ manual' = "idle"
                   /\ UNCHANGED config
              ELSE /\ config' = file.content
                   /\ manual' = "loaded"
           /\ lastOp' = IF starts THEN "manual_started" ELSE "step"
    /\ report' = NoReport
    /\ UNCHANGED <<now, file, gui_config, has_user_info, config_last_modified,
                   timer, next_run_time, timers, inFlight, stopper, retry,
                   attempted>>
    /\ UNCHANGED singletonVars

\* Core line 109 and gui line 709: the check-in thread, which has parsed the
\* file, asks for the file's modification time now (os.path.getmtime raises
\* when the file has been removed meanwhile) and calls setup_automation, which
\* takes the schedule from self.config as it is now and raises when a stop
\* has deleted the attribute.
ManualLoaded ==
    /\ manual = "loaded"
    /\ config_last_modified' =
          IF file.exists THEN file.mtime ELSE config_last_modified
    /\ IF file.exists /\ HasAttr(config)
       THEN /\ has_user_info' = TRUE
            /\ schedule_config' = get_schedule(config)
            /\ manual' = "run"
            /\ lastOp' = "manual_loaded"
            /\ UNCHANGED gui
       ELSE /\ manual' = "idle"
            /\ lastOp' = "step"
            /\ gui' = [gui EXCEPT !.core_scheduler_available = FALSE]
            /\ UNCHANGED <<has_user_info, schedule_config>>
    /\ report' = NoReport
    /\ UNCHANGED <<now, file, gui_config, config, running, timer, next_run_time,
                   timers, loops, combined_thread, inFlight, stopper, ops, retry,
                   attempted>>
    /\ UNCHANGED singletonVars

\* Line 712: run_once() enters fill_health_form.
ManualRunBegin ==
    /\ manual = "run"
    /\ manual' = "filling"
    /\ inFlight' = inFlight \cup {Invocation("manual", 0, 0)}
    /\ lastOp' = "step"
    /\ report' = NoReport
    /\ UNCHANGED <<now, file, gui_config, config, schedule_config, has_user_info,
                   config_last_modified, running, timer, next_run_time, timers,
                   loops, combined_thread, stopper, ops, retry, attempted>>
    /\ UNCHANGED <<singletonVars, gui>>

\* fill_health_form returns through its finally, run_once returns.
ManualRunEnd ==
    /\ manual = "filling"
    /\ manual' = "idle"
    /\ \E x \in {y \in inFlight : y.kind = "manual"} :
          \E o \in InvocationOutcomes(x) :
             /\ inFlight' \in Unloaded(inFlight \ {x})
             /\ report' = ManualReport(o)
    /\ has_user_info' = FALSE
    /\ attempted' = TRUE
    /\ lastOp' = "step"
    /\ UNCHANGED <<now, file, gui_config, config, schedule_config,
                   config_last_modified, running, timer, next_run_time, timers,
                   loops, combined_thread, stopper, ops, retry>>
    /\ UNCHANGED <<singletonVars, gui>>

\* ---------------------------------------------- HealthCheckGUI.save_settings
\* The time of day the user enters in the settings form: another one than the
\* initial file's at the first save, the same one at a later save.
SettingsTimes == {<<9, 0>>}

\* str.isdigit(): a non-empty string of digits.
Digits == {"0", "1", "2", "3", "4", "5", "6", "7", "8", "9"}

isdigit(p) == p # << >> /\ \A i \in DOMAIN p : p[i] \in Digits

\* The length line 769 asks of a phone number.
PhoneLength == 11

\* What the user has typed into the phone field: nothing, a number of 11
\* digits, one of 10 digits, one of 12 digits, 11 characters with a letter.
ValidPhone == <<"1", "3", "8", "0", "0", "1", "3", "8", "0", "0", "0">>

Phones ==
    {<< >>, ValidPhone, SubSeq(ValidPhone, 1, PhoneLength - 1), ValidPhone \o <<"0">>,
     [ValidPhone EXCEPT ![PhoneLength] = "a"]}

\* Line 769 with the length test alone.
phone_rejected_by_length(p) == p # << >> /\ Len(p) # PhoneLength

\* Line 769: a non-empty value that is not a string of 11 digits.
phone_rejected(p) == p # << >> /\ (~isdigit(p) \/ Len(p) # PhoneLength)

\* What save_settings did with the phone field's value.
PhoneReport(p, result) ==
    [kind |-> "phone", result |-> result, leaked |-> FALSE, sink |-> 0, phone |-> p]

\* save_settings lines 766-797 up to the open in save_config (line 624): a
\* phone number that fails the test of line 769 ends the handler behind an
\* error box; otherwise the form is copied into self.config, and the file is
\* opened for writing, which truncates it.
SaveSettingsOpen ==
    /\ stopper.pc = "idle"
    /\ gui.save = "idle"
    /\ ops < MaxOps
    /\ ops' = ops + 1
    /\ \E p \in Phones :
          IF phone_rejected(p)
          THEN /\ lastOp' = "save_rejected"
               /\ report' = PhoneReport(p, "rejected")
               /\ UNCHANGED <<gui_config, file, gui>>
          ELSE /\ \E hm \in SettingsTimes :
                     gui_config' = [schedule |-> Sched(TRUE, hm[1], hm[2])]
               /\ file' = [exists |-> TRUE, mtime |-> file.mtime + 1,
                           content |-> Truncated]
               /\ gui' = [gui EXCEPT !.save = "open"]
               /\ lastOp' = "save_open"
               /\ report' = PhoneReport(p, "accepted")
    /\ UNCHANGED <<now, config, schedule_config, has_user_info,
                   config_last_modified, running, timer, next_run_time, timers,
                   loops, combined_thread, inFlight, stopper, manual, retry,
                   attempted>>
    /\ UNCHANGED singletonVars

\* The rest of save_settings: json.dump (line 625) writes the form, then lines
\* 797-805: self.config is read back and schedule_auto_checkin is called,
\* which writes the file once more with the same content
\* (_update_schedule_config) and goes on as schedule_auto_checkin does.
SaveSettings ==
    /\ stopper.pc = "idle"
    /\ gui.save = "open"
    /\ file' = [exists |-> TRUE, mtime |-> file.mtime + 1, content |-> gui_config]
    /\ schedule_auto_checkin(gui_config["schedule"], [gui EXCEPT !.save = "idle"],
                             "none")
    /\ report' = NoReport
    /\ UNCHANGED <<now, gui_config, config, has_user_info, config_last_modified,
                   timer, next_run_time, timers, inFlight, stopper, manual, ops,
                   retry, attempted>>
    /\ UNCHANGED singletonVars

\* ------------------------------------------------------------ specification
Next ==
    \/ Tick
    \/ FileWrite
    \/ FileDelete
    \/ Start
    \/ LoadConfig
    \/ SaveConfig
    \/ SetupAutomation
    \/ StopBegin
    \/ StopEnd
    \/ \E t \in DOMAIN loops : LoopBegin(t)
    \/ \E t \in DOMAIN loops : LoopBeginArm(t)
    \/ \E t \in DOMAIN loops : LoopWake(t)
    \/ \E t \in DOMAIN loops : LoopPollArm(t)
    \/ \E t \in DOMAIN loops : LoopRaise(t)
    \/ \E t \in DOMAIN loops : LoopBackoffEnd(t)
    \/ \E i \in DOMAIN timers : TimerFire(i)
    \/ \E i \in DOMAIN timers : TimerFillEnd(i)
    \/ \E i \in DOMAIN timers : TimerRearm(i)
    \/ ManualPrepare
    \/ ManualLoaded
    \/ ManualRunBegin
    \/ ManualRunEnd
    \/ SaveSettingsOpen
    \/ SaveSettings

Spec == Init /\ [][Next]_vars

\* ------------------------------------- specification of ScheduleCalculator
CalcHours == 0..23
CalcMinutes == 0..59

CalcSchedules ==
    {Sched(e, h, m) : e \in BOOLEAN, h \in CalcHours, m \in CalcMinutes}
        \cup {EmptyDict}

CalcNows ==
    {At(d, h, m, s) + ms : d \in 0..MaxDay, h \in {0, 9, 23}, m \in {0, 30, 59},
                           s \in {0, 1, 59}, ms \in {0, 500}}

InitCalc ==
    /\ now \in CalcNows
    /\ schedule_config \in CalcSchedules
    /\ file = [exists |-> TRUE, mtime |-> 1, content |-> InitialContent]
    /\ gui_config = InitialContent
    /\ config = NoAttr
    /\ has_user_info = FALSE
    /\ config_last_modified = 0
    /\ running = FALSE
    /\ timer = 0
    /\ next_run_time = None
    /\ timers = << >>
    /\ loops = << >>
    /\ combined_thread = 0
    /\ inFlight = {}
    /\ stopper = [pc |-> "idle", deadline |-> 0]
    /\ manual = "idle"
    /\ ops = 0
    /\ lastOp = "init"
    /\ report = NoReport
    /\ retry = NoRetry
    /\ attempted = FALSE
    /\ instance = 0
    /\ objects = << >>
    /\ callers = [c \in Callers |-> IdleCaller]
    /\ gui = NewGui

\* Line 547: self.next_run_time = self._calculate_next_run_time()
CalculateNextRunTime ==
    /\ lastOp = "init"
    /\ next_run_time' = calculate_next_run_time(schedule_config, now)
    /\ lastOp' = "calc"
    /\ report' = NoReport
    /\ UNCHANGED <<now, file, gui_config, config, schedule_config, has_user_info,
                   config_last_modified, running, timer, timers, loops,
                   combined_thread, inFlight, stopper, manual, ops, retry,
                   attempted>>
    /\ UNCHANGED <<singletonVars, gui>>

NextCalc == CalculateNextRunTime

SpecCalc == InitCalc /\ [][NextCalc]_vars

\* ------------------------------ specification of wait_and_click_with_retry
\* Lines 210-227 with the return of line 218 taken out: a successful click
\* does not end the loop.
retry_step_no_return(r) ==
    IF r.attempts >= r.max_retries
    THEN [r EXCEPT !.pc = "returned", !.ret = FALSE]
    ELSE IF r.results[r.attempts + 1] /\ r.attempts + 1 >= r.max_retries
         THEN [r EXCEPT !.pc = "returned", !.ret = TRUE, !.attempts = @ + 1]
         ELSE IF r.attempts < r.max_retries - 1
              THEN [r EXCEPT !.attempts = @ + 1]
              ELSE [r EXCEPT !.pc = "returned", !.ret = FALSE, !.attempts = @ + 1]

\* Lines 210-227: one pass of the for loop, or line 227 when the range is
\* used up.  r.attempts is the number of clicks tried so far, r.results[k]
\* tells whether the k-th click gets through.
retry_step(r) ==
    IF r.attempts >= r.max_retries
    THEN [r EXCEPT !.pc = "returned", !.ret = FALSE]
    ELSE IF r.results[r.attempts + 1]
         THEN [r EXCEPT !.pc = "returned", !.ret = TRUE, !.attempts = @ + 1]
         ELSE IF r.attempts < r.max_retries - 1
              THEN [r EXCEPT !.attempts = @ + 1]
              ELSE [r EXCEPT !.pc = "returned", !.ret = FALSE, !.attempts = @ + 1]

RetryCalls ==
    {[pc |-> "loop", max_retries |-> n, results |-> r, attempts |-> 0,
      ret |-> FALSE] : n \in 0..MaxRetries, r \in [1..MaxRetries -> BOOLEAN]}

InitRetry ==
    /\ retry \in RetryCalls
    /\ now = At(0, 9, 0, 0)
    /\ file = [exists |-> TRUE, mtime |-> 1, content |-> InitialContent]
    /\ gui_config = InitialContent
    /\ config = NoAttr
    /\ schedule_config = NoAttr
    /\ has_user_info = FALSE
    /\ config_last_modified = 0
    /\ running = FALSE
    /\ timer = 0
    /\ next_run_time = None
    /\ timers = << >>
    /\ loops = << >>
    /\ combined_thread = 0
    /\ inFlight = {}
    /\ stopper = [pc |-> "idle", deadline |-> 0]
    /\ manual = "idle"
    /\ ops = 0
    /\ lastOp = "init"
    /\ report = NoReport
    /\ attempted = FALSE
    /\ instance = 0
    /\ objects = << >>
    /\ callers = [c \in Callers |-> IdleCaller]
    /\ gui = NewGui

\* Lines 211-226: one attempt.
RetryAttempt ==
    /\ retry.pc = "loop"
    /\ retry.attempts < retry.max_retries
    /\ retry' = retry_step(retry)
    /\ UNCHANGED <<now, file, gui_config, config, schedule_config, has_user_info,
                   config_last_modified, running, timer, next_run_time, timers,
                   loops, combined_thread, inFlight, stopper, manual, ops,
                   lastOp, report, attempted>>
    /\ UNCHANGED <<singletonVars, gui>>

\* Line 227: the range is empty.
RetryExhausted ==
    /\ retry.pc = "loop"
    /\ retry.attempts >= retry.max_retries
    /\ retry' = retry_step(retry)
    /\ UNCHANGED <<now, file, gui_config, config, schedule_config, has_user_info,
                   config_last_modified, running, timer, next_run_time, timers,
                   loops, combined_thread, inFlight, stopper, manual, ops,
                   lastOp, report, attempted>>
    /\ UNCHANGED <<singletonVars, gui>>

NextRetry == RetryAttempt \/ RetryExhausted

SpecRetry == InitRetry /\ [][NextRetry]_vars

\* ------------------------------------------- the loop on a fine-grained clock
\* The run instant of the initial schedule, 10:30:00 of day 0.
FirstRun == At(0, 10, 30, 0)

\* The scheduler is started LeadSeconds before the run instant.
LeadSeconds == {5 * k : k \in 1..MaxLead}

\* The clock stops advancing for a running scheduler at this instant.
LoopHorizon == FirstRun + MaxSeconds * SecondMs

\* The state in which start_combined_thread and the first lines of
\* combined_loop (489-507) leave a controller set up from the initial file:
\* the timer armed for 10:30, the loop in its first sleep.  The file is as it
\* was loaded, or was rewritten between setup_automation and the start.
InitLoop ==
    /\ \E k \in LeadSeconds : now = FirstRun - k * SecondMs
    /\ \E c \in FileContents :
          file = IF c = InitialContent
                 THEN [exists |-> TRUE, mtime |-> 1, content |-> c]
                 ELSE [exists |-> TRUE, mtime |-> 2, content |-> c]
    /\ gui_config = InitialContent
    /\ config = InitialContent
    /\ schedule_config = InitialContent["schedule"]
    /\ has_user_info = TRUE
    /\ config_last_modified = 1
    /\ running = TRUE
    /\ next_run_time = FirstRun
    /\ timers = <<NewTimer(FirstRun, now)>>
    /\ timer = 1
    /\ loops = <<[pc |-> "sleep", last_config_check |-> now,
                  wake_at |-> now + SleepTime(get_next_run_delay(FirstRun, now))]>>
    /\ combined_thread = 1
    /\ inFlight = {}
    /\ stopper = [pc |-> "idle", deadline |-> 0]
    /\ manual = "idle"
    /\ ops = 0
    /\ lastOp = "init"
    /\ report = NoReport
    /\ retry = NoRetry
    /\ attempted = FALSE
    /\ instance = 0
    /\ objects = << >>
    /\ callers = [c \in Callers |-> IdleCaller]
    /\ gui = NewGui

\* The instants at which a sleep, a Timer delay or a join ends.
Deadlines ==
    {loops[t].wake_at : t \in {u \in DOMAIN loops : loops[u].pc \in {"sleep", "backoff"}}}
       \cup {timers[i].target : i \in ArmedTimers}
       \cup (IF stopper.pc = "join" THEN {stopper.deadline} ELSE {})

\* Time passes until the earliest deadline.  For a running scheduler the
\* clock advances up to the horizon; after a stop it goes on until the sleeps
\* in progress, none longer than SleepCap, have ended.
TickFine ==
    /\ ~StepDue
    /\ Waiting
    /\ \E d \in Deadlines :
          /\ \A e \in Deadlines : d <= e
          /\ \/ now < LoopHorizon
             \/ ~running /\ d <= LoopHorizon + 2 * SleepCap * SecondMs
          /\ now' = d
    /\ lastOp' = "tick"
    /\ report' = NoReport
    /\ UNCHANGED <<file, gui_config, config, schedule_config, has_user_info,
                   config_last_modified, running, timer, next_run_time, timers,
                   loops, combined_thread, inFlight, stopper, manual, ops, retry,
                   attempted>>
    /\ UNCHANGED <<singletonVars, gui>>

NextLoop ==
    \/ TickFine
    \/ StopBegin
    \/ StopEnd
    \/ \E t \in DOMAIN loops : LoopWake(t)
    \/ \E t \in DOMAIN loops : LoopPollArm(t)
    \/ \E i \in DOMAIN timers : TimerFire(i)
    \/ \E i \in DOMAIN timers : TimerFillEnd(i)
    \/ \E i \in DOMAIN timers : TimerRearm(i)

SpecLoop == InitLoop /\ [][NextLoop]_vars

\* Time passes, and a thread that can take its next step takes it.
LoopFairness ==
    /\ WF_vars(TickFine)
    /\ WF_vars(StopEnd)
    /\ WF_vars(\E t \in DOMAIN loops : LoopWake(t))
    /\ WF_vars(\E t \in DOMAIN loops : LoopPollArm(t))
    /\ WF_vars(\E i \in DOMAIN timers : TimerFire(i))
    /\ WF_vars(\E i \in DOMAIN timers : TimerFillEnd(i))
    /\ WF_vars(\E i \in DOMAIN timers : TimerRearm(i))

SpecLoopLive == InitLoop /\ [][NextLoop]_vars /\ LoopFairness

\* ------------------------------------------------- the singleton controller
\* The variables of the scheduler, untouched by the constructor's steps.
schedulerVars ==
    <<now, file, gui_config, config, schedule_config, has_user_info,
      config_last_modified, running, timer, next_run_time, timers, loops,
      combined_thread, inFlight, stopper, manual, ops, report, retry, attempted,
      gui>>

InitSingleton == Init

\* A thread calls HealthCheckAutomation() (line 46) or get_instance() (line 73).
Call(c) ==
    /\ callers[c].pc = "idle"
    /\ callers[c].calls < MaxCalls
    /\ \E via \in {"ctor", "get_instance"} :
          callers' = [callers EXCEPT ![c] =
              [@ EXCEPT !.pc = IF via = "ctor" THEN "new" ELSE "gi_test",
                        !.via = via, !.self = 0, !.calls = @ + 1]]
    /\ lastOp' = "call"
    /\ UNCHANGED <<instance, objects, schedulerVars>>

\* Line 75: get_instance tests the class attribute; cls() follows when it is
\* None.
GetInstanceTest(c) ==
    /\ callers[c].pc = "gi_test"
    /\ callers' = [callers EXCEPT ![c].pc = IF instance = 0 THEN "new" ELSE "gi_ret"]
    /\ lastOp' = "step"
    /\ UNCHANGED <<instance, objects, schedulerVars>>

\* Line 47: __new__ tests the class attribute.
NewTest(c) ==
    /\ callers[c].pc = "new"
    /\ callers' = [callers EXCEPT ![c].pc =
                      IF instance = 0 THEN "new_create" ELSE "new_ret"]
    /\ lastOp' = "step"
    /\ UNCHANGED <<instance, objects, schedulerVars>>

\* Line 48: the object is created and stored in the class attribute.
NewCreate(c) ==
    /\ callers[c].pc = "new_create"
    /\ objects' = Append(objects, NewObject)
    /\ instance' = Len(objects) + 1
    /\ callers' = [callers EXCEPT ![c].pc = "new_ret"]
    /\ lastOp' = "step"
    /\ UNCHANGED schedulerVars

\* Line 49: __new__ returns what the class attribute holds now; __init__ is
\* entered with it.
NewReturn(c) ==
    /\ callers[c].pc = "new_ret"
    /\ callers' = [callers EXCEPT ![c] = [@ EXCEPT !.pc = "init_test", !.self = instance]]
    /\ lastOp' = "step"
    /\ UNCHANGED <<instance, objects, schedulerVars>>

\* Line 53: hasattr(self, 'initialized').
InitTest(c) ==
    /\ callers[c].pc = "init_test"
    /\ callers' = [callers EXCEPT ![c].pc =
                      IF objects[callers[c].self].initialized THEN "ctor_ret"
                                                              ELSE "init_body"]
    /\ lastOp' = "step"
    /\ UNCHANGED <<instance, objects, schedulerVars>>

\* Lines 55-70: the attributes are set to their initial values (running among
\* them), initialized last.
InitBody(c) ==
    /\ callers[c].pc = "init_body"
    /\ objects' = [objects EXCEPT ![callers[c].self] =
                      [initialized |-> TRUE, running |-> FALSE]]
    /\ callers' = [callers EXCEPT ![c].pc = "ctor_ret"]
    /\ lastOp' = "initialised"
    /\ UNCHANGED <<instance, schedulerVars>>

\* The constructor returns: to the caller, or to line 76 of get_instance, which
\* stores the object in the class attribute.
CtorReturn(c) ==
    /\ callers[c].pc = "ctor_ret"
    /\ IF callers[c].via = "ctor"
       THEN /\ callers' = [callers EXCEPT ![c] =
                   [@ EXCEPT !.pc = "idle", !.ret = callers[c].self]]
            /\ lastOp' = "returned"
            /\ UNCHANGED instance
       ELSE /\ instance' = callers[c].self
            /\ callers' = [callers EXCEPT ![c].pc = "gi_ret"]
            /\ lastOp' = "step"
    /\ UNCHANGED <<objects, schedulerVars>>

\* Line 77: get_instance returns what the class attribute holds now.
GetInstanceReturn(c) ==
    /\ callers[c].pc = "gi_ret"
    /\ callers' = [callers EXCEPT ![c] = [@ EXCEPT !.pc = "idle", !.ret = instance]]
    /\ lastOp' = "returned"
    /\ UNCHANGED <<instance, objects, schedulerVars>>

\* A thread that was handed the controller starts its scheduler (line 599).
UseController(c) ==
    /\ callers[c].pc = "idle"
    /\ callers[c].ret # 0
    /\ objects[callers[c].ret].initialized
    /\ ~objects[callers[c].ret].running
    /\ objects' = [objects EXCEPT ![callers[c].ret].running = TRUE]
    /\ lastOp' = "step"
    /\ UNCHANGED <<instance, callers, schedulerVars>>

NextSingleton ==
    \/ \E c \in Callers : Call(c)
    \/ \E c \in Callers : GetInstanceTest(c)
    \/ \E c \in Callers : NewTest(c)
    \/ \E c \in Callers : NewCreate(c)
    \/ \E c \in Callers : NewReturn(c)
    \/ \E c \in Callers : InitTest(c)
    \/ \E c \in Callers : InitBody(c)
    \/ \E c \in Callers : CtorReturn(c)
    \/ \E c \in Callers : GetInstanceReturn(c)
    \/ \E c \in Callers : UseController(c)

SpecSingleton == InitSingleton /\ [][NextSingleton]_vars

\* ------------------------------------------------ the GUI and its schedulers
\* Lines 59-64: self.config is the file's content with schedule.enabled set to
\* True, in memory.
force_enabled(c) ==
    [schedule |-> [k \in DOMAIN get_schedule(c) \cup {"enabled"} |->
                      IF k = "enabled" THEN TRUE ELSE get_schedule(c)[k]]]

\* HealthCheckGUI.__init__ has returned (lines 56-93): the file is as it was
\* found, self.config is its content with the schedule enabled, no core
\* instance has been fetched, and schedule_auto_checkin is still to be called.
InitGui ==
    /\ now = At(0, 9, 0, 0)
    /\ \E c \in {x \in FileContents : Wellformed(x)} :
          /\ file = [exists |-> TRUE, mtime |-> 1, content |-> c]
          /\ gui_config = force_enabled(c)
    /\ gui = NewGui
    /\ config = NoAttr
    /\ schedule_config = NoAttr
    /\ has_user_info = FALSE
    /\ config_last_modified = 0
    /\ running = FALSE
    /\ timer = 0
    /\ next_run_time = None
    /\ timers = << >>
    /\ loops = << >>
    /\ combined_thread = 0
    /\ inFlight = {}
    /\ stopper = [pc |-> "idle", deadline |-> 0]
    /\ manual = "idle"
    /\ ops = 0
    /\ lastOp = "init"
    /\ report = NoReport
    /\ retry = NoRetry
    /\ attempted = FALSE
    /\ instance = 0
    /\ objects = << >>
    /\ callers = [c \in Callers |-> IdleCaller]

\* schedule_auto_checkin(), called one second after the start (line 93) and
\* by on_auto_enabled_changed (line 848): _update_schedule_config (lines
\* 917-924) sets enabled, hour and minute in self.config and saves the file,
\* then lines 864-915 follow.
ScheduleAutoCheckin ==
    /\ stopper.pc = "idle"
    /\ gui.save = "idle"
    /\ ops < MaxOps
    /\ ops' = ops + 1
    /\ \E hm \in SettingsTimes :
          gui_config' = [schedule |-> Sched(TRUE, hm[1], hm[2])]
    /\ file' = [exists |-> TRUE, mtime |-> file.mtime + 1, content |-> gui_config']
    /\ \E err \in ScheduleErrors :
          schedule_auto_checkin(gui_config'["schedule"], gui, err)
    /\ report' = NoReport
    /\ UNCHANGED <<now, config, has_user_info, config_last_modified, timer,
                   next_run_time, timers, inFlight, stopper, manual, retry,
                   attempted>>
    /\ UNCHANGED singletonVars

\* A local timer reaches its target: _local_timer_callback begins (line 975)
\* and scheduled_checkin starts the check-in thread, whose first statements
\* (lines 996-999) reload the file when the GUI holds an available core
\* instance; an exception there ends the thread before real_checkin.
LocalTimerFire(i) ==
    /\ gui.local_timers[i] = "armed"
    /\ manual = "idle"
    /\ ops < MaxOps
    /\ ops' = ops + 1
    /\ gui' = [gui EXCEPT !.local_timers[i] = "callback"]
    /\ IF gui.core_instance /\ gui.core_scheduler_available
       THEN LET r == load_or_create_config(config, config_last_modified)
            IN  /\ config' = r.config
                /\ config_last_modified' = r.config_last_modified
                /\ manual' = IF r.raised THEN "idle" ELSE "scheduled"
       ELSE /\ manual' = "scheduled"
            /\ UNCHANGED <<config, config_last_modified>>
    /\ lastOp' = "local_fire"
    /\ report' = NoReport
    /\ UNCHANGED <<now, file, gui_config, schedule_config, has_user_info, running,
                   timer, next_run_time, timers, loops, combined_thread, inFlight,
                   stopper, retry, attempted>>
    /\ UNCHANGED singletonVars

\* Lines 977-979: the callback, having started the check-in thread, creates
\* the timer of the next day and keeps it in self._local_timer; it does not
\* look at _local_scheduler_running.
LocalTimerRearm(i) ==
    /\ gui.local_timers[i] = "callback"
    /\ gui' = schedule_local_timer([gui EXCEPT !.local_timers[i] = "done"])
    /\ lastOp' = "local_rearm"
    /\ report' = NoReport
    /\ UNCHANGED <<now, file, gui_config, config, schedule_config, has_user_info,
                   config_last_modified, running, timer, next_run_time, timers,
                   loops, combined_thread, inFlight, stopper, manual, ops, retry,
                   attempted>>
    /\ UNCHANGED singletonVars

NextGui ==
    \/ ScheduleAutoCheckin
    \/ SaveSettingsOpen
    \/ SaveSettings
    \/ \E i \in DOMAIN gui.local_timers : LocalTimerFire(i)
    \/ \E i \in DOMAIN gui.local_timers : LocalTimerRearm(i)
    \/ ManualPrepare
    \/ ManualLoaded
    \/ ManualRunBegin
    \/ ManualRunEnd
    \/ FileWrite

SpecGui == InitGui /\ [][NextGui]_vars

\* ------------------------------------------------------------------ claims
StartLabels == {"start", "start_disabled", "start_raised"}

TimeOfDay(sc) == sc["hour"] * HourMs + sc["minute"] * MinuteMs

\* C1: at most one execution of fill_health_form (Actuator invocation) is in
\* flight at any instant, whatever the interleaving of a manual run_once and
\* a scheduled _timer_callback.
C1_AtMostOneActuatorInFlight == Cardinality(inFlight) <= 1

\* C2: start is idempotent: a start_combined_thread() call made while the
\* scheduler is already running is a no-op and creates no second loop thread.
C2_StartIsIdempotent ==
    [][(running /\ lastOp' \in {"start", "manual_started"})
          => UNCHANGED <<loops, combined_thread>>]_vars

\* C3: a start_combined_thread() that immediately follows the return of
\* stop_combined_thread() re-establishes scheduling: the cleared state is
\* recreated and exactly one loop thread runs to arm the next timer.
C3_StopThenStartReestablishes ==
    [][(lastOp = "stop_return" /\ lastOp' \in StartLabels)
          => /\ running'
             /\ HasAttr(schedule_config')
             /\ HasAttr(config')
             /\ Cardinality({t \in DOMAIN loops' : loops'[t].pc # "exited"}) = 1]_vars

\* C4: over any sequence of start and stop calls at most one thread executes
\* combined_loop at any time.
C4_AtMostOneLoopThread == Cardinality(LiveLoops) <= 1

\* C5: _calculate_next_run_time returns None for a disabled or empty schedule,
\* and otherwise the instant strictly after now that is today at hour:minute:00
\* when that is still in the future and tomorrow at hour:minute:00 when
\* today's candidate is <= now.
C5_NextRunIsNextOccurrence ==
    lastOp = "calc" =>
        IF ~Truthy(schedule_config) \/ ~schedule_config["enabled"]
        THEN next_run_time = None
        ELSE LET today == At(now \div DayMs, schedule_config["hour"],
                             schedule_config["minute"], 0)
             IN  /\ next_run_time > now
                 /\ next_run_time - now <= DayMs
                 /\ next_run_time % DayMs = TimeOfDay(schedule_config)
                 /\ today > now => next_run_time = today
                 /\ today <= now => next_run_time = today + DayMs

\* C5 witness: now is exactly today's hour:minute:00 and tomorrow is returned.
C5_Witness ==
    /\ lastOp = "calc"
    /\ Truthy(schedule_config)
    /\ schedule_config["enabled"]
    /\ now % DayMs = TimeOfDay(schedule_config)
    /\ next_run_time = now + DayMs

\* C6: next_run_time is None exactly when the schedule is disabled or no timer
\* is active; after a hot-reload that leaves the running scheduler with a
\* disabled schedule no run instant is stored and no timer is armed.
C6_DisabledReloadClearsRun ==
    (lastOp = "poll_reload" /\ running /\ HasAttr(schedule_config)
        /\ ~GetEnabled(schedule_config))
        => (next_run_time = None /\ ArmedTimers = {})

\* C7: when stop_combined_thread() returns after finding running true,
\* running is false, no timer is armed, next_run_time is None and config and
\* schedule_config are cleared.
C7_StopClearsState ==
    lastOp = "stop_return" =>
        /\ ~running
        /\ timer = 0
        /\ ArmedTimers = {}
        /\ next_run_time = None
        /\ ~HasAttr(config)
        /\ ~HasAttr(schedule_config)

\* C8: a start_combined_thread() called while the config file is missing
\* starts no loop thread and leaves running false.
C8_StartFailsWithoutFile ==
    [][(~file.exists /\ lastOp' \in StartLabels)
          => (loops' = loops /\ ~running')]_vars

\* C9: start_combined_thread() with schedule.enabled false returns without
\* starting a loop: running, the threads, the timers and next_run_time are
\* unchanged.
C9_DisabledStartIsNoOp ==
    [][lastOp' = "start_disabled"
          => UNCHANGED <<running, loops, combined_thread, timers, timer,
                         next_run_time>>]_vars

\* C9 witness: start has returned early on a disabled schedule.
C9_Witness ==
    /\ lastOp = "start_disabled"
    /\ ~schedule_config["enabled"]
    /\ ~running
    /\ loops = << >>

\* C10: after a config poll of the running loop, with an enabled schedule in
\* the file, every armed timer targets the file's hour:minute, also when
\* another caller loaded the config before the poll.
C10_HotReloadRearms ==
    (lastOp \in {"poll_nochange", "poll_arm"} /\ running /\ readable
        /\ GetEnabled(file.content["schedule"])
        /\ valid_time(file.content["schedule"]))
        => \A i \in ArmedTimers :
              timers[i].target % DayMs = TimeOfDay(file.content["schedule"])

PollLabels == {"poll_nochange", "poll_reload", "poll_failed"}

\* C11: a poll (check_config_changes) made while the file's modification time
\* equals the recorded timestamp reloads nothing and reschedules nothing:
\* config, schedule_config, config_last_modified, timer, the timers and
\* next_run_time are unchanged, at every such poll.
C11_UnchangedMtimeNoReload ==
    [][(file.exists /\ file.mtime = config_last_modified /\ lastOp' \in PollLabels)
          => /\ lastOp' = "poll_nochange"
             /\ UNCHANGED <<config, schedule_config, config_last_modified, timer,
                            timers, next_run_time>>]_vars

\* C11 witness: the running loop has polled a loaded file that is at the
\* recorded timestamp.
C11_Witness ==
    /\ lastOp = "poll_nochange"
    /\ file.exists
    /\ file.mtime = config_last_modified
    /\ HasAttr(config)
    /\ running

\* C12: a poll whose load fails has already stored the file's modification
\* time, and a poll made while the unreadable file is unmodified (or missing)
\* attempts no reload.
C12_DebounceFailedReload ==
    [][/\ (lastOp' = "poll_failed" /\ ~Wellformed(file.content))
             => config_last_modified' = file.mtime
       /\ (~readable /\ (file.exists => file.mtime = config_last_modified)
              /\ lastOp' \in PollLabels)
             => /\ lastOp' = "poll_nochange"
                /\ UNCHANGED <<config, schedule_config, config_last_modified>>]_vars

\* C12 witness: the poll of a malformed file has failed and the timestamp is
\* the file's.
C12_Witness ==
    /\ lastOp = "poll_failed"
    /\ file.exists
    /\ ~Wellformed(file.content)
    /\ config_last_modified = file.mtime
    /\ report = ReloadFailure

\* C13: when fill_health_form returns, on any exit path, no browser session
\* that the call created is left open.
C13_ActuatorReleasesBrowser ==
    report.kind \in {"timer", "manual"} => ~report.leaked

\* C14: an execution of fill_health_form that starts after an earlier one has
\* returned still has user_info and browser_config.
C14_RepeatedInvocationHasInfo ==
    attempted => \A x \in inFlight : x.driver

\* C15: the manual run (real_checkin with its run_once) leaves running, the
\* loop threads, the timers and next_run_time unchanged at each of its steps.
C15_ManualRunLeavesScheduler ==
    [][manual' # manual
          => UNCHANGED <<running, loops, combined_thread, timer, timers,
                         next_run_time>>]_vars

\* C16: wait_and_click_with_retry makes at most max_retries attempts, returns
\* True at the first attempt that succeeds with no attempt after it, and
\* returns False after max_retries failed attempts.
C16_RetryBounded ==
    /\ retry.attempts <= retry.max_retries
    /\ retry.pc = "returned" =>
          LET hits == {k \in 1..retry.max_retries : retry.results[k]}
          IN  /\ retry.ret <=> hits # {}
              /\ retry.ret => /\ retry.attempts \in hits
                              /\ \A k \in hits : retry.attempts <= k
              /\ ~retry.ret => retry.attempts = retry.max_retries

\* C16 witness: with the default of 2 attempts the first click failed and the
\* second got through.
C16_Witness ==
    /\ retry.pc = "returned"
    /\ retry.max_retries = DefaultMaxRetries
    /\ ~retry.results[1]
    /\ retry.ret
    /\ retry.attempts = 2

\* C17: every failed attempt of the Actuator, scheduled or manual, and every
\* failed reload puts exactly one failure message on the GUI status callback.
C17_OneFailureMessage ==
    report.result \in {"failure", "raised"} => report.sink = 1

\* C18: an exception inside an iteration of combined_loop is caught: running
\* is unchanged, the thread sleeps 5 seconds, and while running is true it
\* then goes on with the next iteration.
C18_IterationExceptionContained ==
    [][/\ lastOp' = "loop_caught"
             => /\ running' = running
                /\ \A t \in DOMAIN loops :
                      loops'[t] # loops[t]
                         => /\ loops'[t].pc = "backoff"
                            /\ loops'[t].wake_at = now + Backoff * SecondMs
       /\ (lastOp' = "loop_resumed" /\ running)
             => \A t \in DOMAIN loops :
                   loops'[t] # loops[t] => loops'[t].pc = "sleep"]_vars

\* C18 witness: a loop that caught an exception is back in its next iteration
\* with running true.
C18_Witness ==
    /\ lastOp = "loop_resumed"
    /\ running
    /\ \E t \in DOMAIN loops : loops[t].pc = "sleep" /\ loops[t].wake_at > now

\* C19: whenever running is true and no stop is in progress, the thread that
\* start_combined_thread created last is alive.
C19_LoopNeverDies ==
    (running /\ stopper.pc = "idle" /\ combined_thread # 0)
        => Alive(combined_thread)

\* C20: while running with the schedule enabled a run instant is fired once:
\* no two executions of _timer_callback are for the same instant.
C20_OneFirePerInstant ==
    (running /\ HasAttr(schedule_config) /\ GetEnabled(schedule_config))
        => \A x, y \in inFlight :
              (x.kind = "timer" /\ y.kind = "timer" /\ x.instant = y.instant)
                 => x = y

\* A call of _schedule_next_run is between its cancel and its arm.
Scheduling ==
    \/ \E t \in DOMAIN loops : loops[t].pc \in {"begin", "begin_arm", "poll_arm"}
    \/ \E i \in DOMAIN timers : timers[i].st = "rearm"

\* C21: with a single loop thread, once the calls of _schedule_next_run made
\* by the timer thread (_timer_callback) and by the loop thread
\* (check_config_changes) have returned, at most one timer is armed, it is
\* self.timer, and next_run_time is its target, for every interleaving.
C21_RescheduleMutuallyExclusive ==
    (Len(loops) = 1 /\ running /\ stopper.pc = "idle" /\ ~Scheduling)
        => /\ Cardinality(ArmedTimers) <= 1
           /\ \A i \in ArmedTimers : timer = i /\ timers[i].target = next_run_time

\* C23: when the GUI saves new settings while the core loop is already
\* running, the file is reloaded and the run rescheduled at once: as soon as
\* the save returns every armed timer targets the saved hour:minute, without
\* waiting for the poll.
C23_SaveForcesReschedule ==
    (lastOp = "save_settings" /\ running)
        => \A i \in ArmedTimers :
              timers[i].target % DayMs = TimeOfDay(gui_config["schedule"])

\* C24: load_or_create_config fails when the config file does not exist and
\* synthesizes no default; on that failure, and on a parse failure, the cached
\* config and config_last_modified are left unchanged.
C24_LoadFailureKeepsCache ==
    [][(lastOp' \in {"load", "load_raised"} /\ ~readable)
          => /\ lastOp' = "load_raised"
             /\ UNCHANGED <<config, config_last_modified>>]_vars

\* C24 witness: load_or_create_config has raised for a missing file while a
\* config loaded earlier is cached.
C24_Witness ==
    /\ lastOp = "load_raised"
    /\ ~file.exists
    /\ HasAttr(config)
    /\ config_last_modified > 0

\* C25: check_config_changes treats an absent config file as no change: the
\* poll performs no reload, does not fail, and leaves config, schedule_config,
\* config_last_modified, timer, the timers and next_run_time unchanged.
C25_AbsentFileIsNoChange ==
    [][(~file.exists /\ lastOp' \in PollLabels)
          => /\ lastOp' = "poll_nochange"
             /\ report' = NoReport
             /\ UNCHANGED <<config, schedule_config, config_last_modified, timer,
                            timers, next_run_time>>]_vars

\* C25 witness: the running loop has polled while the file is absent and the
\* recorded timestamp is older than the file's last modification.
C25_Witness ==
    /\ lastOp = "poll_nochange"
    /\ ~file.exists
    /\ file.mtime > config_last_modified
    /\ running

\* C26: save_config writes the file and does not update the watch timestamp:
\* config_last_modified is the same before and after, so the core's own save
\* is a change for the next poll.
C26_SaveKeepsWatchTimestamp ==
    [][lastOp' = "save_config"
          => /\ config_last_modified' = config_last_modified
             /\ file'.mtime > file.mtime
             /\ file'.exists /\ file'.mtime > config_last_modified']_vars

\* C26 witness: the core has saved its cached config over an unchanged file
\* while the loop runs, and the file is now newer than the recorded timestamp.
C26_Witness ==
    /\ lastOp = "save_config"
    /\ running
    /\ file.content = config
    /\ config_last_modified = file.mtime - 1
    /\ config_changed

\* C22: there is a single process-wide controller: any two calls of
\* HealthCheckAutomation() or get_instance() that have returned, concurrent
\* first calls from two threads included, returned the same object.
C22_SingleInstance ==
    \A c1, c2 \in Callers :
       (callers[c1].ret # 0 /\ callers[c2].ret # 0)
          => callers[c1].ret = callers[c2].ret

\* C27: the sleep an iteration of combined_loop picks, as a function of
\* delay = next_run_time - now (reported as 0 when the instant has passed and
\* as -1 when nothing is scheduled): 0.5 s for 0 <= delay <= 5 s, delay 0
\* included; min(delay/2, config_check_interval/2, 30 s) for delay > 5 s;
\* min(config_check_interval, 30 s) for delay -1; always positive and at
\* most 30 s.
C27_AdaptiveSleep ==
    [][\A t \in DOMAIN loops' :
          (t \in DOMAIN loops /\ loops'[t] # loops[t] /\ loops'[t].pc = "sleep")
             => LET delay == get_next_run_delay(next_run_time', now')
                    slept == loops'[t].wake_at - now'
                    half == (config_check_interval * SecondMs) \div 2
                IN  /\ (delay >= 0 /\ delay <= 5 * SecondMs) => slept = 500
                    /\ delay > 5 * SecondMs
                          => slept = Min(delay \div 2, Min(half, 30 * SecondMs))
                    /\ delay = -1
                          => slept = Min(config_check_interval * SecondMs,
                                         30 * SecondMs)
                    /\ slept > 0
                    /\ slept <= 30 * SecondMs]_vars

\* C28: while the loop runs without iteration errors, the time between two
\* consecutive config polls (and between the start of the loop and the first
\* poll) never exceeds config_check_interval, whatever the adaptive sleeps.
C28_PollWithinInterval ==
    [][\A t \in DOMAIN loops' :
          (t \in DOMAIN loops /\ running /\ loops'[t].pc # "exited"
              /\ loops'[t].last_config_check # loops[t].last_config_check)
             => loops'[t].last_config_check - loops[t].last_config_check
                    <= config_check_interval * SecondMs]_vars

\* C29: after stop_combined_thread() has set running to false, with no start
\* following, the loop thread eventually exits: it leaves combined_loop when
\* its current sleep ends.
C29_StoppedLoopExits ==
    (~running /\ Alive(combined_thread)) ~> ~Alive(combined_thread)

\* C29 witness: the stop found the loop asleep, the join timed out after 5
\* seconds and the loop has exited at the end of its sleep, after the stop
\* returned.
C29_Witness ==
    /\ ~running
    /\ combined_thread # 0
    /\ ~Alive(combined_thread)
    /\ stopper.pc = "idle"
    /\ lastOp # "stop_return"
    /\ ~HasAttr(schedule_config)

\* C30: after stop_combined_thread() has returned and until the next start no
\* timer is armed and no scheduled execution of fill_health_form begins, also
\* when the stop meets a _timer_callback that has tested running (line 576)
\* and has not yet armed its timer: the rest of its _schedule_next_run arms
\* nothing.
C30_NoRearmAfterStop ==
    [][\A i \in DOMAIN timers :
          (timers[i].st = "rearm" /\ timers'[i].st # "rearm"
              /\ ~running /\ stopper.pc = "idle")
             => ArmedTimers' = {}]_vars

\* C31: stop_combined_thread() does not disturb an execution of
\* fill_health_form that is in progress: when the stop returns, every attempt
\* in flight still has the user info and browser options it started with.
C31_StopLeavesAttemptAlone ==
    [][lastOp' = "stop_return" => inFlight' = inFlight]_vars

\* C32: whenever the loop's poll loads the file (check_config_changes reaches
\* load_or_create_config), the file is not in the middle of a save by the GUI:
\* the poll reads the complete old or the complete new content, never the
\* truncated file that exists between save_config's open and its dump.
C32_PollNeverReadsTruncatedFile ==
    [][lastOp' \in {"poll_reload", "poll_failed"} => file.content # Truncated]_vars

\* C33: when load_or_create_config has succeeded, config_last_modified is the
\* modification time of the file version that was read: the recorded time is
\* the file's and the cached config is that file's content.
C33_LoadRecordsMtimeOfFileRead ==
    [][lastOp' \in {"load", "manual_loaded"}
          => config_last_modified' = file'.mtime /\ config' = file'.content]_vars

\* C36: a return of stop_combined_thread has deleted config and
\* schedule_config and has left config_last_modified as it was, so the test
\* of the next poll (is the file newer than the recorded time) gives the
\* answer it gave before the stop: a file not modified since the last load is
\* not reloaded.
C36_StopKeepsWatchTimestamp ==
    [][lastOp' = "stop_return"
          => /\ config' = NoAttr
             /\ schedule_config' = NoAttr
             /\ config_last_modified' = config_last_modified
             /\ config_changed' = config_changed]_vars

\* C36 witness: stop_combined_thread has returned on a controller that had
\* loaded the file; the file is unmodified since that load and the poll's test
\* finds no change.
C36_Witness ==
    /\ lastOp = "stop_return"
    /\ config = NoAttr
    /\ config_last_modified > 0
    /\ file.exists
    /\ file.mtime = config_last_modified
    /\ ~config_changed

\* C34: the GUI never has both schedulers active: the core scheduler's running
\* flag is not set while a local fallback timer of the GUI is armed.
C34_OneSchedulerActive ==
    ~(running /\ ArmedLocalTimers(gui) # {})

\* C35: after a GUI operation that writes the schedule (the construction of
\* the GUI, save_settings, schedule_auto_checkin), schedule.enabled is true in
\* the GUI's config and in the persisted file, whatever the file held before.
C35_ScheduleWriteEnablesBoth ==
    lastOp \in {"init", "save_settings", "save_started", "save_fallback"}
        => /\ GetEnabled(get_schedule(gui_config))
           /\ file.exists
           /\ Wellformed(file.content)
           /\ GetEnabled(get_schedule(file.content))

\* C37: save_settings called with a non-empty phone value that is not a string
\* of exactly 11 digits rejects the save: the GUI's config, the config file,
\* the GUI's schedulers and the core's schedule, timers and threads are as
\* they were, and nothing is rescheduled.
C37_InvalidPhoneRejectsSave ==
    [][(/\ lastOp' \in {"save_rejected", "save_open"}
        /\ report'.phone # << >>
        /\ ~(Len(report'.phone) = 11 /\ \A i \in 1..11 : report'.phone[i] \in Digits))
          => /\ lastOp' = "save_rejected"
             /\ UNCHANGED <<gui_config, file, gui, config, schedule_config,
                            config_last_modified, running, timer, timers,
                            next_run_time, loops, combined_thread>>]_vars

\* C37 witness: with the core scheduler running, save_settings has rejected a
\* phone value of 11 characters that are not all digits.
C37_Witness ==
    /\ lastOp = "save_rejected"
    /\ report.kind = "phone"
    /\ Len(report.phone) = 11
    /\ ~isdigit(report.phone)
    /\ running
    /\ gui.save = "idle"

====
